---------------------------- MODULE Spec2Model ----------------------------
(***************************************************************************)
(* Model of the Alti-2 serial protocol client (src/src/main.rs): the       *)
(* additive checksum, the command encoder, the identity-record decoder,    *)
(* the 16-round block cipher and the Session::open exchange.               *)
(*                                                                         *)
(* Bytes are naturals in 0..255 and byte strings are sequences of bytes.   *)
(* A u32 is the pair <<hi, lo>> of its 16-bit halves; additions carry from *)
(* the low half into the high half and wrap modulo 2^32.                   *)
(***************************************************************************)
EXTENDS Naturals, Sequences, FiniteSets

VARIABLES
    \* a keyed Cipher at work
    cpc,          \* "idle", "input", "encrypted", "decrypted", "block", "blockdone"
    key,          \* Cipher.k, four u32 words
    plain,        \* byte string handed to Cipher::encrypt
    enc,          \* result of Cipher::encrypt
    dec,          \* result of Cipher::decrypt
    blk,          \* block <<v0, v1>> handed to Cipher::encrypt_single
    blkOut,       \* result of Cipher::encrypt_single
    \* DeviceInfo::try_from at work on a payload
    dpc,          \* "idle", "fresh", "tampered", "done"
    orig,         \* the payload as received
    payload,      \* the payload handed to try_from
    result,       \* what try_from produced
    \* Session::open at work on a transport
    pc,           \* position in Session::open / Session::get_type0
    rx,           \* the bytes the device delivers before the read timeout
    tx,           \* the bytes written to the transport
    writes,       \* number of write_all calls made
    reads,        \* number of read_exact calls made
    hdr_len,      \* the declared length parsed from the header, or None
    type0_bytes,  \* what get_type0 returned, or None
    device_info,  \* what DeviceInfo::try_from returned, or NO_RESULT
    keyed_on,     \* the slice from_type0_bytes was invoked on, or None
    cipher,       \* the derived key, or None
    err           \* why the exchange ended early, or "none"

cvars == <<cpc, key, plain, enc, dec, blk, blkOut>>
dvars == <<dpc, orig, payload, result>>
svars == <<pc, rx, tx, writes, reads, hdr_len, type0_bytes, device_info, keyed_on, cipher, err>>
vars == <<cvars, dvars, svars>>

\* Option<T>: None is the empty sequence and Some(x) the sequence of x alone
None == <<>>
Some(x) == <<x>>

NO_RESULT == [kind |-> "None"]

-----------------------------------------------------------------------------
(* Fixed-width arithmetic                                                  *)

RECURSIVE Pow2(_)
Pow2(n) == IF n = 0 THEN 1 ELSE 2 * Pow2(n - 1)

RECURSIVE XorN(_, _, _)
\* bitwise exclusive or of two n-bit naturals
XorN(a, b, n) ==
    IF n = 0 THEN 0
    ELSE ((a + b) % 2) + 2 * XorN(a \div 2, b \div 2, n - 1)

\* Wrapping<u32> operators of std::num
w_add(a, b) ==
    LET lo == a[2] + b[2]
    IN  <<(a[1] + b[1] + (lo \div 65536)) % 65536, lo % 65536>>

w_sub(a, b) ==
    LET lo == (a[2] + 65536) - b[2]
        borrow == 1 - (lo \div 65536)
    IN  <<((a[1] + 65536) - b[1] - borrow) % 65536, lo % 65536>>

\* exclusive or of two bytes, tabulated once
XorByte == [a \in 0..255 |-> [b \in 0..255 |-> XorN(a, b, 8)]]

Xor16(a, b) ==
    XorByte[a % 256][b % 256] + 256 * XorByte[a \div 256][b \div 256]

w_xor(a, b) == <<Xor16(a[1], b[1]), Xor16(a[2], b[2])>>

\* logical shifts by 0 < n < 16
w_shl(a, n) ==
    <<(a[1] * Pow2(n) + (a[2] \div Pow2(16 - n))) % 65536, (a[2] * Pow2(n)) % 65536>>

w_shr(a, n) ==
    <<a[1] \div Pow2(n), (a[2] \div Pow2(n)) + (a[1] % Pow2(n)) * Pow2(16 - n)>>

\* u32::from_le_bytes and u32::to_le_bytes
from_le_bytes(b) == <<b[3] + 256 * b[4], b[1] + 256 * b[2]>>

to_le_bytes(w) == <<w[2] % 256, w[2] \div 256, w[1] % 256, w[1] \div 256>>

-----------------------------------------------------------------------------
(* Cipher                                                                  *)

\* the identity payload of the test module
TYPE0_RESPONSE ==
    <<30, 0, 5, 16, 3, 89, 49, 56, 51, 54, 52, 49, 32, 32, 2, 7,
      1, 0, 32, 1, 0, 0, 0, 0, 0, 0, 0, 32, 5, 0, 0, 56>>

TEST_PAYLOAD == <<1, 170, 170>>

\* bytes[i] of a Rust slice (0-based) in a 1-based sequence
at(bytes, i) == bytes[i + 1]

\* the largest 0-based index Cipher::from_type0_bytes reads
KEY_MAX_OFFSET == 26

from_type0_bytes(bytes) ==
    << from_le_bytes(<<78, at(bytes, 8), at(bytes, 26), at(bytes, 24)>>),
       from_le_bytes(<<at(bytes, 6), at(bytes, 25), at(bytes, 23), at(bytes, 13)>>),
       from_le_bytes(<<at(bytes, 10), 117, at(bytes, 7), at(bytes, 22)>>),
       from_le_bytes(<<at(bytes, 9), at(bytes, 11), 126, at(bytes, 21)>>) >>

ROUNDS == 16
DELTA == <<40503, 31161>>          \* 0x9E3779B9
DECRYPT_SUM == <<58231, 39824>>    \* 0xE3779B90

\* k[(u2 & 3)] and k[((u2 >> 11) & 3)]
key_lo(k, u2) == k[(u2[2] % 4) + 1]
key_hi(k, u2) == k[((u2[2] \div 2048) % 4) + 1]

\* mutant of mix: the key word is combined with the sum by exclusive or
mix_xor_key(x, u2, kw) ==
    w_xor(w_add(w_xor(w_shl(x, 4), w_shr(x, 5)), x), w_xor(u2, kw))

\* (((x << 4) ^ (x >> 5)) + x) ^ (u2 + key word)
mix(x, u2, kw) ==
    w_xor(w_add(w_xor(w_shl(x, 4), w_shr(x, 5)), x), w_add(u2, kw))

RECURSIVE encrypt_rounds(_, _, _, _, _)
encrypt_rounds(k, u, u1, u2, n) ==
    IF n = 0 THEN <<u, u1>>
    ELSE LET nu  == w_add(u, mix(u1, u2, key_lo(k, u2)))
             nu2 == w_add(u2, DELTA)
             nu1 == w_add(u1, mix(nu, nu2, key_hi(k, nu2)))
         IN  encrypt_rounds(k, nu, nu1, nu2, n - 1)

encrypt_single(k, v) == encrypt_rounds(k, v[1], v[2], <<0, 0>>, ROUNDS)

RECURSIVE decrypt_rounds(_, _, _, _, _)
decrypt_rounds(k, u, u1, u2, n) ==
    IF n = 0 THEN <<u, u1>>
    ELSE LET nu1 == w_sub(u1, mix(u, u2, key_hi(k, u2)))
             nu2 == w_sub(u2, DELTA)
             nu  == w_sub(u, mix(nu1, nu2, key_lo(k, nu2)))
         IN  decrypt_rounds(k, nu, nu1, nu2, n - 1)

\* mutant of decrypt_single: the sum starts one round in, not sixteen
decrypt_single_short_sum(k, v) == decrypt_rounds(k, v[1], v[2], DELTA, ROUNDS)

decrypt_single(k, v) == decrypt_rounds(k, v[1], v[2], DECRYPT_SUM, ROUNDS)

\* bytes.resize(len + (if len % 32 != 0 { 32 - len % 32 } else { 0 }), 0)
resize_to_block(bytes) ==
    LET len == Len(bytes)
        n   == len + (IF len % 32 # 0 THEN 32 - (len % 32) ELSE 0)
    IN  [i \in 1..n |-> IF i <= len THEN bytes[i] ELSE 0]

\* bytes.chunks(4).map(zero-filled u32::from_le_bytes).collect()
le_words(bytes) ==
    [j \in 1..((Len(bytes) + 3) \div 4) |->
        from_le_bytes([i \in 1..4 |->
            IF 4 * (j - 1) + i <= Len(bytes) THEN bytes[4 * (j - 1) + i] ELSE 0])]

pair_bytes(pr) == to_le_bytes(pr[1]) \o to_le_bytes(pr[2])

\* u32s.chunks_exact(2).map(encrypt_single then to bytes).flatten().collect()
RECURSIVE encrypt_pairs(_, _, _)
encrypt_pairs(k, w, p) ==
    IF 2 * p > Len(w) THEN <<>>
    ELSE pair_bytes(encrypt_single(k, <<w[2 * p - 1], w[2 * p]>>))
            \o encrypt_pairs(k, w, p + 1)

RECURSIVE decrypt_pairs(_, _, _)
decrypt_pairs(k, w, p) ==
    IF 2 * p > Len(w) THEN <<>>
    ELSE pair_bytes(decrypt_single(k, <<w[2 * p - 1], w[2 * p]>>))
            \o decrypt_pairs(k, w, p + 1)

encrypt(k, bytes) == encrypt_pairs(k, le_words(resize_to_block(bytes)), 1)

decrypt(k, bytes) == decrypt_pairs(k, le_words(resize_to_block(bytes)), 1)

-----------------------------------------------------------------------------
(* Checksum, hex text and UTF-8 text                                       *)

\* bytes.iter().fold(0, |acc, b| acc.wrapping_add(*b))
RECURSIVE checksum_fold(_, _, _)
checksum_fold(acc, bytes, i) ==
    IF i > Len(bytes) THEN acc
    ELSE checksum_fold((acc + bytes[i]) % 256, bytes, i + 1)

checksum(bytes) == checksum_fold(0, bytes, 1)

\* &bytes[a..b] of a Rust slice (0-based, end exclusive)
slice(bytes, a, b) == SubSeq(bytes, a + 1, b)

\* the digits of hex::encode_upper, as ASCII codes: "0123456789ABCDEF"
HEX_CHARS_UPPER == <<48, 49, 50, 51, 52, 53, 54, 55, 56, 57, 65, 66, 67, 68, 69, 70>>

RECURSIVE encode_upper_from(_, _)
encode_upper_from(bytes, i) ==
    IF i > Len(bytes) THEN <<>>
    ELSE <<HEX_CHARS_UPPER[(bytes[i] \div 16) + 1], HEX_CHARS_UPPER[(bytes[i] % 16) + 1]>>
            \o encode_upper_from(bytes, i + 1)

\* hex::encode_upper
encode_upper(bytes) == encode_upper_from(bytes, 1)

\* the value of one hex digit as hex::decode reads it, or 16 when it is none
hex_val(c) ==
    IF c \in 48..57 THEN c - 48
    ELSE IF c \in 65..70 THEN c - 55
    ELSE IF c \in 97..102 THEN c - 87
    ELSE 16

RECURSIVE hex_pairs(_, _)
hex_pairs(str, i) ==
    IF i > Len(str) THEN <<>>
    ELSE <<16 * hex_val(str[i]) + hex_val(str[i + 1])>> \o hex_pairs(str, i + 2)

\* hex::decode: odd length and non-hex characters are errors
hex_decode(str) ==
    IF Len(str) % 2 # 0 \/ \E i \in 1..Len(str) : hex_val(str[i]) = 16
    THEN [ok |-> FALSE, bytes |-> <<>>]
    ELSE [ok |-> TRUE, bytes |-> hex_pairs(str, 1)]

is_cont(s, i) == i <= Len(s) /\ s[i] \in 128..191

\* String::from_utf8 accepts exactly the well-formed UTF-8 byte strings
RECURSIVE utf8_from(_, _)
utf8_from(s, i) ==
    IF i > Len(s) THEN TRUE
    ELSE LET b == s[i]
         IN  IF b < 128 THEN utf8_from(s, i + 1)
             ELSE IF b \in 194..223 THEN is_cont(s, i + 1) /\ utf8_from(s, i + 2)
             ELSE IF b = 224 THEN
                 /\ i + 1 <= Len(s) /\ s[i + 1] \in 160..191
                 /\ is_cont(s, i + 2) /\ utf8_from(s, i + 3)
             ELSE IF b = 237 THEN
                 /\ i + 1 <= Len(s) /\ s[i + 1] \in 128..159
                 /\ is_cont(s, i + 2) /\ utf8_from(s, i + 3)
             ELSE IF b \in 225..239 THEN
                 is_cont(s, i + 1) /\ is_cont(s, i + 2) /\ utf8_from(s, i + 3)
             ELSE IF b = 240 THEN
                 /\ i + 1 <= Len(s) /\ s[i + 1] \in 144..191
                 /\ is_cont(s, i + 2) /\ is_cont(s, i + 3) /\ utf8_from(s, i + 4)
             ELSE IF b \in 241..243 THEN
                 /\ is_cont(s, i + 1) /\ is_cont(s, i + 2) /\ is_cont(s, i + 3)
                 /\ utf8_from(s, i + 4)
             ELSE IF b = 244 THEN
                 /\ i + 1 <= Len(s) /\ s[i + 1] \in 128..143
                 /\ is_cont(s, i + 2) /\ is_cont(s, i + 3) /\ utf8_from(s, i + 4)
             ELSE FALSE

is_utf8(s) == utf8_from(s, 1)

\* the UTF-8 encodings of the characters with the White_Space property,
\* which str::trim removes from both ends
WHITE_SPACE ==
    {<<c>> : c \in {9, 10, 11, 12, 13, 32}}
        \cup {<<194, 133>>, <<194, 160>>, <<225, 154, 128>>}
        \cup {<<226, 128, c>> : c \in (128..138) \cup {168, 169, 175}}
        \cup {<<226, 129, 159>>, <<227, 128, 128>>}

starts_with(s, w) == Len(w) <= Len(s) /\ SubSeq(s, 1, Len(w)) = w
ends_with(s, w) == Len(w) <= Len(s) /\ SubSeq(s, Len(s) - Len(w) + 1, Len(s)) = w

RECURSIVE trim_start(_)
trim_start(s) ==
    IF \E w \in WHITE_SPACE : starts_with(s, w)
    THEN LET w == CHOOSE w \in WHITE_SPACE : starts_with(s, w)
         IN  trim_start(SubSeq(s, Len(w) + 1, Len(s)))
    ELSE s

RECURSIVE trim_end(_)
trim_end(s) ==
    IF \E w \in WHITE_SPACE : ends_with(s, w)
    THEN LET w == CHOOSE w \in WHITE_SPACE : ends_with(s, w)
         IN  trim_end(SubSeq(s, 1, Len(s) - Len(w)))
    ELSE s

\* mutant of trim: only leading white space is removed
trim_leading_only(s) == trim_start(s)

\* str::trim
trim(s) == trim_end(trim_start(s))

-----------------------------------------------------------------------------
(* Identity record                                                         *)

\* mutant of ProductType_from: the codes are matched one off
ProductType_from_shifted(code) ==
    CASE code = 0 -> "Neptune"
      [] code = 1 -> "Wave"
      [] code = 2 -> "Tracker"
      [] code = 3 -> "DataLogger"
      [] code = 4 -> "N3"
      [] code = 5 -> "N3A"
      [] code = 6 -> "Atlas"
      [] OTHER -> "Unknown"

ProductType_from(code) ==
    CASE code = 1 -> "Neptune"
      [] code = 2 -> "Wave"
      [] code = 3 -> "Tracker"
      [] code = 4 -> "DataLogger"
      [] code = 5 -> "N3"
      [] code = 6 -> "N3A"
      [] code = 7 -> "Atlas"
      [] OTHER -> "Unknown"

\* mutant of checksum_matches: the checksummed region starts one byte late
checksum_matches_late_start(bytes) ==
    checksum(slice(bytes, 2, Len(bytes) - 1)) = at(bytes, Len(bytes) - 1)

\* the ensure! of DeviceInfo::try_from, for a slice of at least two bytes
checksum_matches(bytes) ==
    checksum(slice(bytes, 1, Len(bytes) - 1)) = at(bytes, Len(bytes) - 1)

\* DeviceInfo::try_from.  Indexing past the end of a slice panics; the
\* fields are evaluated in the order they are written.
try_from(bytes) ==
    IF Len(bytes) < 2 THEN [kind |-> "Panic"]                \* &bytes[1..len - 1]
    ELSE IF ~checksum_matches(bytes) THEN [kind |-> "ChecksumMismatch"]
    ELSE IF Len(bytes) < 14 THEN [kind |-> "Panic"]          \* bytes[3], bytes[4], bytes[5..14]
    ELSE IF ~is_utf8(slice(bytes, 5, 14)) THEN [kind |-> "FromUtf8Error"]
    ELSE IF Len(bytes) < 16 THEN [kind |-> "Panic"]          \* bytes[14], bytes[15]
    ELSE [kind |-> "Ok",
          major |-> at(bytes, 3) \div 16,
          minor |-> at(bytes, 3) % 16,
          revision |-> at(bytes, 4),
          serial_number |-> trim(slice(bytes, 5, 14)),
          hardware_revision |-> at(bytes, 14),
          product_type |-> ProductType_from(at(bytes, 15))]

\* mutant of to_bytes: the length counts the checksum byte too
to_bytes_long_length(command) ==
    LET contents == CASE command = "GetInfo" -> <<128>>
    IN  encode_upper(<<(Len(contents) + 1) % 256>>) \o encode_upper(contents)
            \o encode_upper(<<checksum(contents)>>)

\* Command::to_bytes
to_bytes(command) ==
    LET contents == CASE command = "GetInfo" -> <<128>>
    IN  encode_upper(<<Len(contents) % 256>>) \o encode_upper(contents)
            \o encode_upper(<<checksum(contents)>>)

-----------------------------------------------------------------------------
(* Transport                                                               *)

\* mutant of read_exact: a single read that returns what has arrived and
\* leaves the rest of the zeroed buffer as it was
read_available(stream, pos, n) ==
    [ok |-> TRUE,
     data |-> [i \in 1..n |-> IF pos + i <= Len(stream) THEN stream[pos + i] ELSE 0]]

\* Read::read_exact on the port: all n bytes past pos, or an error when the
\* device delivers fewer before the timeout
read_exact(stream, pos, n) ==
    IF pos + n <= Len(stream)
    THEN [ok |-> TRUE, data |-> SubSeq(stream, pos + 1, pos + n)]
    ELSE [ok |-> FALSE, data |-> <<>>]

\* (len + 1) * 3 + 2
remaining_ascii_len(len) == (len + 1) * 3 + 2

is_separator(c) == c \in {32, 10, 13}

\* info_str.replace(&[' ', '\n', '\r'][..], "")
RECURSIVE strip_from(_, _)
strip_from(str, i) ==
    IF i > Len(str) THEN <<>>
    ELSE (IF is_separator(str[i]) THEN <<>> ELSE <<str[i]>>) \o strip_from(str, i + 1)

strip(str) == strip_from(str, 1)

\* the part of the buffer get_type0 turns into text: buf[..2 + remaining_ascii_len]
info_slice(buf, remaining) == slice(buf, 0, 2 + remaining)

-----------------------------------------------------------------------------
(* Idle components: each specification below exercises one component and   *)
(* leaves the others untouched.                                            *)

ZERO_BLOCK == <<<<0, 0>>, <<0, 0>>>>

CipherIdle ==
    /\ cpc = "idle" /\ key = <<>> /\ plain = <<>> /\ enc = <<>> /\ dec = <<>>
    /\ blk = ZERO_BLOCK /\ blkOut = ZERO_BLOCK

DecodeIdle ==
    /\ dpc = "idle" /\ orig = <<>> /\ payload = <<>> /\ result = NO_RESULT

SessionIdle ==
    /\ pc = "idle" /\ rx = <<>> /\ tx = <<>> /\ writes = 0 /\ reads = 0
    /\ hdr_len = None /\ type0_bytes = None /\ device_info = NO_RESULT
    /\ keyed_on = None /\ cipher = None /\ err = "none"

-----------------------------------------------------------------------------
(* Cipher runs: a keyed cipher encrypts then decrypts a byte string, or    *)
(* transforms one block.                                                   *)

MaxLen == 33

Pattern(len, seed, stride) == [i \in 1..len |-> (seed + (i - 1) * stride) % 256]

Plaintexts ==
    {TEST_PAYLOAD} \cup
    {Pattern(len, seed, stride) : len \in 0..MaxLen, seed \in {0, 170, 255}, stride \in {0, 37}}
        \cup {Pattern(len, 170, 37) : len \in {63, 64, 65}}

KeyPayloads ==
    {TYPE0_RESPONSE, Pattern(32, 255, 0), Pattern(27, 3, 29)}

WordValues == {<<0, 0>>, <<0, 1>>, <<65535, 65535>>, <<32768, 0>>, <<40503, 31161>>, <<4660, 22136>>}

CipherInit ==
    /\ key \in {from_type0_bytes(p) : p \in KeyPayloads}
    /\ cpc \in {"input", "block"}
    /\ plain \in (IF cpc = "input" THEN Plaintexts ELSE {<<>>})
    /\ blk \in (IF cpc = "block" THEN WordValues \X WordValues ELSE {ZERO_BLOCK})
    /\ enc = <<>>
    /\ dec = <<>>
    /\ blkOut = ZERO_BLOCK
    /\ DecodeIdle
    /\ SessionIdle

Encrypt ==
    /\ cpc = "input"
    /\ enc' = encrypt(key, plain)
    /\ cpc' = "encrypted"
    /\ UNCHANGED <<key, plain, dec, blk, blkOut, dvars, svars>>

Decrypt ==
    /\ cpc = "encrypted"
    /\ dec' = decrypt(key, enc)
    /\ cpc' = "decrypted"
    /\ UNCHANGED <<key, plain, enc, blk, blkOut, dvars, svars>>

EncryptSingle ==
    /\ cpc = "block"
    /\ blkOut' = encrypt_single(key, blk)
    /\ cpc' = "blockdone"
    /\ UNCHANGED <<key, plain, enc, dec, blk, dvars, svars>>

CipherNext == Encrypt \/ Decrypt \/ EncryptSingle

SpecCipher == CipherInit /\ [][CipherNext]_vars


-----------------------------------------------------------------------------
(* Decoder runs: DeviceInfo::try_from is handed a payload, as received or  *)
(* after one byte of its checksummed region was replaced.                  *)

MaxShort == 3

\* body followed by the checksum of body[1..]
with_checksum(body) == body \o <<checksum(slice(body, 1, Len(body)))>>

set_byte(bytes, i, v) == [bytes EXCEPT ![i + 1] = v]

\* a payload of n >= 2 bytes: declared length, a prefix of the identity
\* content, and a matching checksum
valid_payload(n) == with_checksum(<<n - 2>> \o slice(TYPE0_RESPONSE, 1, n - 1))

\* the identity payload with another product-type code
with_product(c) == with_checksum(set_byte(slice(TYPE0_RESPONSE, 0, 31), 15, c))

\* serial-number bytes that are no UTF-8 text, in a payload of n bytes
bad_serial(n) == with_checksum(set_byte(slice(valid_payload(n), 0, n - 1), 6, 255))

\* serial number " Y18364" followed by a no-break space
spaced_serial ==
    with_checksum(set_byte(set_byte(set_byte(slice(TYPE0_RESPONSE, 0, 31), 5, 32), 12, 194), 13, 160))

RECURSIVE SeqsUpTo(_, _)
SeqsUpTo(S, n) ==
    IF n = 0 THEN {<<>>}
    ELSE LET shorter == SeqsUpTo(S, n - 1)
         IN  shorter \cup {Append(q, x) : q \in shorter, x \in S}

ShortPayloads == SeqsUpTo({0, 1, 255}, MaxShort)

DecodePayloads ==
    {TYPE0_RESPONSE, spaced_serial, bad_serial(32), bad_serial(14), bad_serial(15)}
        \cup {with_product(c) : c \in 0..255}
        \cup {valid_payload(n) : n \in 2..32}
        \cup {set_byte(valid_payload(n), n - 1, 0) : n \in 2..32}
        \cup ShortPayloads

TamperPayloads ==
    {TYPE0_RESPONSE, valid_payload(16), valid_payload(5)}
        \cup {q \in ShortPayloads : Len(q) >= 3 /\ checksum_matches(q)}

DecodeInit ==
    /\ dpc = "fresh"
    /\ orig \in DecodePayloads
    /\ payload = orig
    /\ result = NO_RESULT
    /\ CipherIdle
    /\ SessionIdle

TamperInit ==
    /\ dpc = "fresh"
    /\ orig \in TamperPayloads
    /\ payload = orig
    /\ result = NO_RESULT
    /\ CipherIdle
    /\ SessionIdle

\* one byte at an index in 1..len-2 is replaced by a different value
MutateByte ==
    /\ dpc = "fresh"
    /\ \E i \in 1..(Len(payload) - 2) : \E v \in 0..255 :
          /\ v # at(payload, i)
          /\ payload' = set_byte(payload, i, v)
    /\ dpc' = "tampered"
    /\ UNCHANGED <<orig, result, cvars, svars>>

TryFrom ==
    /\ dpc \in {"fresh", "tampered"}
    /\ result' = try_from(payload)
    /\ dpc' = "done"
    /\ UNCHANGED <<orig, payload, cvars, svars>>

DecodeNext == TryFrom

TamperNext == MutateByte \/ TryFrom

SpecDecode == DecodeInit /\ [][DecodeNext]_vars

SpecTamper == TamperInit /\ [][TamperNext]_vars

-----------------------------------------------------------------------------
(* Session::open: one exchange with the device.  The device delivers rx    *)
(* and nothing more before the read timeout.                               *)

RECURSIVE spaced_hex(_, _)
spaced_hex(bytes, i) ==
    IF i > Len(bytes) THEN <<>>
    ELSE encode_upper(<<bytes[i]>>) \o <<32>> \o spaced_hex(bytes, i + 1)

\* a response as the device frames it: "XX " per byte, then "\r\n"
frame(p) == spaced_hex(p, 1) \o <<13, 10>>

Prefixes(str) == {SubSeq(str, 1, n) : n \in 0..Len(str)}

set_last(str, c) == [str EXCEPT ![Len(str)] = c]

to_lower(str) == [i \in 1..Len(str) |-> IF str[i] \in 65..70 THEN str[i] + 32 ELSE str[i]]

SessionPayloads ==
    {TYPE0_RESPONSE, valid_payload(27), valid_payload(26), valid_payload(16),
     valid_payload(15), valid_payload(2), valid_payload(3),
     bad_serial(32), set_byte(TYPE0_RESPONSE, 31, 0)}

Responses ==
    UNION {Prefixes(frame(p)) : p \in SessionPayloads}
        \cup {set_last(frame(p), c) : p \in SessionPayloads, c \in {48, 90, 32}}
        \cup {frame(p) \o <<48, 49>> : p \in SessionPayloads}
        \cup {to_lower(frame(p)) : p \in SessionPayloads}
        \cup {encode_upper(p) \o <<13, 10>> : p \in SessionPayloads}
        \cup {<<90, 90, 32>> \o frame(<<0>>), <<255, 254, 32>> \o frame(<<0>>),
              <<48, 48, 48>> \o frame(<<0>>), <<48, 49, 32, 48, 53, 32, 255, 53, 32, 13, 10>>,
              <<48, 48, 32, 48, 48, 32, 48, 48>>}

SessionInit ==
    /\ pc = "start"
    /\ rx \in Responses
    /\ tx = <<>>
    /\ writes = 0
    /\ reads = 0
    /\ hdr_len = None
    /\ type0_bytes = None
    /\ device_info = NO_RESULT
    /\ keyed_on = None
    /\ cipher = None
    /\ err = "none"
    /\ CipherIdle
    /\ DecodeIdle

\* tty.write_all(&Command::GetInfo.to_bytes())?
WriteCommand ==
    /\ pc = "start"
    /\ writes' = writes + 1
    /\ \E ok \in BOOLEAN :
          IF ok
          THEN /\ tx' = tx \o to_bytes("GetInfo")
               /\ pc' = "sent"
               /\ err' = err
          ELSE /\ tx' = tx
               /\ pc' = "failed"
               /\ err' = "io"
    /\ UNCHANGED <<rx, reads, hdr_len, type0_bytes, device_info, keyed_on, cipher, cvars, dvars>>

\* tty.read_exact(&mut buf[..3])? and the parse of the length
ReadLength ==
    /\ pc = "sent"
    /\ reads' = reads + 1
    /\ LET r == read_exact(rx, 0, 3)
           h == hex_decode(slice(r.data, 0, 2))
       IN  IF ~r.ok
           THEN pc' = "failed" /\ err' = "io" /\ hdr_len' = hdr_len
           ELSE IF ~is_utf8(slice(r.data, 0, 2))
           THEN pc' = "failed" /\ err' = "FromUtf8Error" /\ hdr_len' = hdr_len
           ELSE IF ~h.ok
           THEN pc' = "failed" /\ err' = "FromHexError" /\ hdr_len' = hdr_len
           ELSE pc' = "header" /\ err' = err /\ hdr_len' = Some(h.bytes[1])
    /\ UNCHANGED <<rx, tx, writes, type0_bytes, device_info, keyed_on, cipher, cvars, dvars>>

\* tty.read_exact(&mut buf[3..3 + remaining_ascii_len])? and the decoding
\* of the text into the bytes get_type0 returns
ReadRemaining ==
    /\ pc = "header"
    /\ reads' = reads + 1
    /\ LET remaining == remaining_ascii_len(hdr_len[1])
           r == read_exact(rx, 3, remaining)
           buf == SubSeq(rx, 1, 3) \o r.data
           info_str == info_slice(buf, remaining)
           info_bytes == hex_decode(strip(info_str))
       IN  IF ~r.ok
           THEN pc' = "failed" /\ err' = "io" /\ type0_bytes' = type0_bytes
           ELSE IF ~is_utf8(info_str)
           THEN pc' = "failed" /\ err' = "FromUtf8Error" /\ type0_bytes' = type0_bytes
           ELSE IF ~info_bytes.ok
           THEN pc' = "failed" /\ err' = "FromHexError" /\ type0_bytes' = type0_bytes
           ELSE pc' = "type0" /\ err' = err /\ type0_bytes' = Some(info_bytes.bytes)
    /\ UNCHANGED <<rx, tx, writes, hdr_len, device_info, keyed_on, cipher, cvars, dvars>>

\* DeviceInfo::try_from(&type0_bytes[..])?
DecodeInfo ==
    /\ pc = "type0"
    /\ device_info' = try_from(type0_bytes[1])
    /\ IF device_info'.kind = "Ok" THEN pc' = "info" /\ err' = err
       ELSE IF device_info'.kind = "Panic" THEN pc' = "panicked" /\ err' = "panic"
       ELSE pc' = "failed" /\ err' = device_info'.kind
    /\ UNCHANGED <<rx, tx, writes, reads, hdr_len, type0_bytes, keyed_on, cipher, cvars, dvars>>

\* Cipher::from_type0_bytes(&type0_bytes), which indexes up to bytes[26]
DeriveKey ==
    /\ pc = "info"
    /\ keyed_on' = type0_bytes
    /\ IF Len(type0_bytes[1]) > KEY_MAX_OFFSET
       THEN pc' = "open" /\ cipher' = Some(from_type0_bytes(type0_bytes[1])) /\ err' = err
       ELSE pc' = "panicked" /\ cipher' = cipher /\ err' = "panic"
    /\ UNCHANGED <<rx, tx, writes, reads, hdr_len, type0_bytes, device_info, cvars, dvars>>

SessionNext == WriteCommand \/ ReadLength \/ ReadRemaining \/ DecodeInfo \/ DeriveKey

Spec == SessionInit /\ [][SessionNext]_vars

-----------------------------------------------------------------------------
(* Properties of the cipher (SpecCipher)                                   *)

\* C1: decrypting what was encrypted under the same derived key gives the
\* input back in the first len(b) bytes of the output, and gives exactly
\* the input when len(b) is a multiple of 32.
C1_Roundtrip ==
    cpc = "decrypted" =>
        /\ Len(dec) >= Len(plain)
        /\ SubSeq(dec, 1, Len(plain)) = plain
        /\ (Len(plain) % 32 = 0 => dec = plain)

C1_Witness ==
    /\ cpc = "decrypted"
    /\ Len(plain) = 32
    /\ enc # plain
    /\ dec = plain

\* The block transform written out on 32-bit vectors, least significant
\* bit first, for comparison with encrypt_single.
RECURSIVE nat_bits(_, _)
nat_bits(x, n) == IF n = 0 THEN <<>> ELSE <<x % 2>> \o nat_bits(x \div 2, n - 1)

RECURSIVE bits_nat(_, _)
bits_nat(b, i) == IF i > Len(b) THEN 0 ELSE b[i] + 2 * bits_nat(b, i + 1)

word_bits(w) == nat_bits(w[2], 16) \o nat_bits(w[1], 16)

bits_word(b) == <<bits_nat(SubSeq(b, 17, 32), 1), bits_nat(SubSeq(b, 1, 16), 1)>>

RECURSIVE b_xor_from(_, _, _)
b_xor_from(a, b, i) ==
    IF i > 32 THEN <<>> ELSE <<(a[i] + b[i]) % 2>> \o b_xor_from(a, b, i + 1)

b_xor(a, b) == b_xor_from(a, b, 1)

RECURSIVE b_add_from(_, _, _, _)
b_add_from(a, b, i, carry) ==
    IF i > 32 THEN <<>>
    ELSE <<(a[i] + b[i] + carry) % 2>> \o b_add_from(a, b, i + 1, (a[i] + b[i] + carry) \div 2)

b_add(a, b) == b_add_from(a, b, 1, 0)

b_shl4(a) == <<0, 0, 0, 0>> \o SubSeq(a, 1, 28)

b_shr5(a) == SubSeq(a, 6, 32) \o <<0, 0, 0, 0, 0>>

\* ((x << 4) XOR (x >> 5)) + x
b_nonlinear(x) == b_add(b_xor(b_shl4(x), b_shr5(x)), x)

\* the key term: accumulator XOR key word as the claim has it, accumulator
\* plus key word (modulo 2^32) otherwise
b_key_term(as_xor, acc, kw) == IF as_xor THEN b_xor(acc, kw) ELSE b_add(acc, kw)

RECURSIVE RefRounds(_, _, _, _, _, _)
RefRounds(as_xor, kb, v0, v1, acc, n) ==
    IF n = 0 THEN <<bits_word(v0), bits_word(v1)>>
    ELSE LET i0   == acc[1] + 2 * acc[2]
             w0   == b_add(v0, b_xor(b_nonlinear(v1), b_key_term(as_xor, acc, kb[i0 + 1])))
             acc1 == b_add(acc, word_bits(<<40503, 31161>>))
             i1   == acc1[12] + 2 * acc1[13]
             w1   == b_add(v1, b_xor(b_nonlinear(w0), b_key_term(as_xor, acc1, kb[i1 + 1])))
         IN  RefRounds(as_xor, kb, w0, w1, acc1, n - 1)

Reference(as_xor, k, v) ==
    RefRounds(as_xor, <<word_bits(k[1]), word_bits(k[2]), word_bits(k[3]), word_bits(k[4])>>,
              word_bits(v[1]), word_bits(v[2]), word_bits(<<0, 0>>), 16)

\* C9 as stated: encrypt_single is the 16-round transform whose key term is
\* (accumulator XOR key[index]).
C9_AsClaimed == cpc = "blockdone" => blkOut = Reference(TRUE, key, blk)

\* C9 amended: encrypt_single is the 16-round transform whose key term is
\* (accumulator + key[index]) modulo 2^32; each word is advanced by the
\* exclusive or of the nonlinear term of its partner and the key term.
C9_Amended == cpc = "blockdone" => blkOut = Reference(FALSE, key, blk)

C9_Witness ==
    /\ cpc = "blockdone"
    /\ key = from_type0_bytes(TYPE0_RESPONSE)
    /\ blk = <<<<4660, 22136>>, <<65535, 65535>>>>
    /\ blkOut = <<<<57609, 49096>>, <<36046, 13235>>>>

-----------------------------------------------------------------------------
(* Properties of the identity decoder (SpecDecode, SpecTamper)             *)

SERIAL_Y183641 == <<89, 49, 56, 51, 54, 52, 49>>

\* C2 as stated: the literal identity payload decodes without error to
\* version 1.0.3, serial number "Y183641", hardware revision 2 and product
\* type Tracker.
C2_AsClaimed ==
    (dpc = "done" /\ payload = TYPE0_RESPONSE) =>
        result = [kind |-> "Ok", major |-> 1, minor |-> 0, revision |-> 3,
                  serial_number |-> SERIAL_Y183641, hardware_revision |-> 2,
                  product_type |-> "Tracker"]

\* C2 amended: the literal identity payload decodes without error to
\* version 1.0.3, serial number "Y183641", hardware revision 2 and product
\* type Atlas (its byte at offset 15 is 7).
C2_Amended ==
    (dpc = "done" /\ payload = TYPE0_RESPONSE) =>
        result = [kind |-> "Ok", major |-> 1, minor |-> 0, revision |-> 3,
                  serial_number |-> SERIAL_Y183641, hardware_revision |-> 2,
                  product_type |-> "Atlas"]

C2_Witness ==
    /\ dpc = "done"
    /\ payload = TYPE0_RESPONSE
    /\ result.kind = "Ok"

\* C3: a payload with a matching checksum, one byte of which at an index
\* in 1..len-2 was replaced by a different value, is rejected with the
\* checksum-mismatch error and yields no record.
C3_TamperRejected ==
    (dpc = "done" /\ checksum_matches(orig) /\ payload # orig) =>
        result = [kind |-> "ChecksumMismatch"]

C3_Witness ==
    /\ dpc = "done"
    /\ orig = TYPE0_RESPONSE
    /\ payload # orig
    /\ at(payload, 30) # at(orig, 30)
    /\ result.kind = "ChecksumMismatch"

PRODUCT_NAMES == <<"Neptune", "Wave", "Tracker", "DataLogger", "N3", "N3A", "Atlas">>

\* C6: a payload that passes the checksum and serial-number checks decodes
\* without error; codes 1..7 at offset 15 give the seven named products
\* in order and every other code gives Unknown.
C6_ProductTypes ==
    (/\ dpc = "done"
     /\ Len(payload) >= 16
     /\ checksum_matches(payload)
     /\ is_utf8(slice(payload, 5, 14))) =>
        /\ result.kind = "Ok"
        /\ result.product_type =
              (IF at(payload, 15) \in 1..7 THEN PRODUCT_NAMES[at(payload, 15)] ELSE "Unknown")

C6_Witness ==
    /\ dpc = "done"
    /\ payload = with_product(99)
    /\ result.kind = "Ok"
    /\ result.product_type = "Unknown"

\* C7 as stated: whatever the payload, try_from ends with a record or with
\* one of its two error values; it never indexes outside the payload.
C7_AsClaimed ==
    dpc = "done" => result.kind \in {"Ok", "ChecksumMismatch", "FromUtf8Error"}

-----------------------------------------------------------------------------
(* Properties of the exchange (Spec)                                       *)

\* C4: the command is written as two uppercase hex characters for the
\* content length, two per content byte and two for the checksum of the
\* content, without separators: "018080" for the get-identity command.
C4_CommandBytes ==
    (pc = "sent" \/ reads >= 1) =>
        /\ tx = <<48, 49, 56, 48, 56, 48>>
        /\ \A i \in 1..Len(tx) : tx[i] \in (48..57) \cup (65..70)

C4_Witness ==
    /\ pc = "sent"
    /\ writes = 1
    /\ tx = <<48, 49, 56, 48, 56, 48>>

\* C5: when the device delivers fewer bytes than the 3-byte header, or
\* fewer than the (L+1)*3+2 further bytes the header declares, the exchange
\* ends with the read error: nothing is returned or decoded, and there is
\* one write and no read beyond the failed one.
C5_ShortReadFails ==
    /\ (reads >= 1 /\ Len(rx) < 3) =>
            /\ pc = "failed" /\ err = "io"
            /\ reads = 1 /\ writes = 1
            /\ hdr_len = None /\ type0_bytes = None /\ device_info = NO_RESULT /\ cipher = None
    /\ (reads >= 2 /\ Len(rx) < 3 + remaining_ascii_len(hdr_len[1])) =>
            /\ pc = "failed" /\ err = "io"
            /\ reads = 2 /\ writes = 1
            /\ type0_bytes = None /\ device_info = NO_RESULT /\ cipher = None

C5_Witness ==
    /\ pc = "failed"
    /\ err = "io"
    /\ reads = 2
    /\ hdr_len = Some(30)
    /\ Len(rx) = 3 + remaining_ascii_len(30) - 1

\* C8 as stated: from_type0_bytes is invoked only on the payload try_from
\* accepted, and only when that payload has at least 27 bytes.
C8_AsClaimed ==
    keyed_on # None =>
        /\ device_info.kind = "Ok"
        /\ keyed_on = type0_bytes
        /\ Len(keyed_on[1]) >= 27

\* C10 as stated: the payload get_type0 returns is the hex-decoding of all
\* consumed bytes (header and remainder) without spaces, CR and LF; for a
\* well-formed response it has L+2 bytes.
C10_AsClaimed ==
    type0_bytes # None =>
        LET consumed == SubSeq(rx, 1, 3 + remaining_ascii_len(hdr_len[1]))
            decoded  == hex_decode(strip(consumed))
        IN  /\ decoded.ok
            /\ type0_bytes[1] = decoded.bytes
            /\ (\E p \in SessionPayloads : rx = frame(p)) =>
                    Len(type0_bytes[1]) = hdr_len[1] + 2

=============================================================================
